---- MODULE Spec2Model ----
(***************************************************************************)
(* A model of axka-rcu (src/src/lib.rs): one Rcu<T> slot, an AtomicPtr<T>  *)
(* that owns one strong reference of the Arc<T> holding the current        *)
(* version, used by several threads through shared owners (Arc<Rcu<T>>).   *)
(*                                                                         *)
(* Every atomic access of the code is one step of the calling thread, so   *)
(* the interleavings of read (load, increment), write (swap, release) and  *)
(* update (load, increment, clone, release, updater, swap, release) are    *)
(* all explored, with read_ref, whose reference takes no count.  A version *)
(* is identified by the version number the test                            *)
(* instrumentation (tests::Version) gives it; numbers are never reused.    *)
(*                                                                         *)
(* Memory that has been deallocated is not tracked any further: an         *)
(* increment of the strong count of a deallocated ArcInner is a stray      *)
(* write, a clone of its payload reads an arbitrary payload, and a release *)
(* of it either runs the destructor once more or does not, chosen          *)
(* nondeterministically.                                                   *)
(***************************************************************************)
EXTENDS Integers, Sequences, FiniteSets

VARIABLES
    slot,         \* Rcu::ptr, the address stored in the AtomicPtr
    torn,         \* TRUE once Drop for Rcu has run
    owner,        \* the threads holding an owner (an Arc<Rcu<T>>) of the slot
    vstate,       \* per version: "unborn", "private" (a T not yet in an Arc), "alloc", "freed"
    strong,       \* per version: the strong count of its ArcInner
    value,        \* per version: the payload (Version::data)
    drops,        \* per version: how many times its destructor has run
    nextVersion,  \* Events.1, the next version number
    events,       \* Events.0, the lifecycle log
    call,         \* per thread: the public method it is in ("none", "read", "read_ref", "write", "update")
    pc,           \* per thread: the step it is at
    ptr,          \* per thread: `ptr` of read / the referent of read_ref's reference
    newv,         \* per thread: `new_ptr` of write / `value` of update
    old,          \* per thread: `old_ptr` of write
    handles,      \* per thread and version: the Arc<T> handles read has returned to it
    writeBacks,   \* how many times write was handed a handle that read returned
    ub            \* history: TRUE once a deallocated version has been accessed

vars == <<slot, torn, owner, vstate, strong, value, drops, nextVersion, events,
          call, pc, ptr, newv, old, handles, writeBacks, ub>>

(* ------------------------------ bounds --------------------------------- *)

NumThreads == 2
MaxVersions == 3
MaxHandles == 1
MaxDrops == 2
MaxWriteBacks == 1

Threads == 1..NumThreads
Versions == 0..(MaxVersions - 1)
Payloads == {0, 5}

(* ------------------------------ helpers -------------------------------- *)

RECURSIVE Sum(_, _)
Sum(f, S) == IF S = {} THEN 0
             ELSE LET x == CHOOSE y \in S : TRUE IN f[x] + Sum(f, S \ {x})

NumHandles(t) == Sum(handles[t], Versions)

Initialize(v) == <<"Initialize", v>>
CloneEvent(from, to) == <<"Clone", from, to>>
DropEvent(v) == <<"Drop", v>>

(* Events::push *)
Push(e) == events' = Append(events, e)

(* Arc::new(Version::new(events, data)): a fresh allocation with strong count 1 *)
ArcNewVersion(v, data) ==
    /\ vstate' = [vstate EXCEPT ![v] = "alloc"]
    /\ strong' = [strong EXCEPT ![v] = 1]
    /\ value' = [value EXCEPT ![v] = data]
    /\ nextVersion' = nextVersion + 1
    /\ Push(Initialize(v))

(* self.ptr.load(Ordering::Acquire) *)
Load == slot

(* mutant: the handle is made from the raw address without the increment *)
IncrementForgotten(v) == strong' = strong /\ ub' = ub

(* Arc::increment_strong_count(ptr).  On a deallocated ArcInner the        *)
(* increment is a stray write into freed memory.                           *)
IncrementStrongCount(v) ==
    IF vstate[v] = "alloc"
    THEN strong' = [strong EXCEPT ![v] = @ + 1] /\ ub' = ub
    ELSE strong' = strong /\ ub' = TRUE

(* mutant: the allocation is freed whatever its strong count *)
DropArcUnchecked(v) ==
    /\ strong' = [strong EXCEPT ![v] = 0]
    /\ vstate' = [vstate EXCEPT ![v] = "freed"]
    /\ drops' = [drops EXCEPT ![v] = IF @ < MaxDrops THEN @ + 1 ELSE @]
    /\ Push(DropEvent(v))
    /\ ub' = (ub \/ vstate[v] # "alloc")

(* drop(Arc::from_raw(p)): the strong count goes down by one and the       *)
(* version is deallocated when it goes from 1 to 0.  On a deallocated      *)
(* ArcInner the decrement reads freed memory: the destructor runs once     *)
(* more, or it does not.                                                   *)
DropArc(v) ==
    IF vstate[v] = "alloc"
    THEN IF strong[v] = 1
         THEN /\ strong' = [strong EXCEPT ![v] = 0]
              /\ vstate' = [vstate EXCEPT ![v] = "freed"]
              /\ drops' = [drops EXCEPT ![v] = @ + 1]
              /\ Push(DropEvent(v))
              /\ ub' = ub
         ELSE /\ strong' = [strong EXCEPT ![v] = @ - 1]
              /\ UNCHANGED <<vstate, drops, events, ub>>
    ELSE /\ ub' = TRUE
         /\ \/ UNCHANGED <<vstate, strong, drops, events>>
            \/ /\ drops[v] < MaxDrops
               /\ drops' = [drops EXCEPT ![v] = @ + 1]
               /\ Push(DropEvent(v))
               /\ UNCHANGED <<vstate, strong>>

(* ------------------------------ Init ----------------------------------- *)

(* Rcu::new(Arc::new(Version::new(events, data))) by thread 1 *)
Init ==
    /\ slot = 0
    /\ torn = FALSE
    /\ owner = {1}
    /\ vstate = [v \in Versions |-> IF v = 0 THEN "alloc" ELSE "unborn"]
    /\ strong = [v \in Versions |-> IF v = 0 THEN 1 ELSE 0]
    /\ value = [v \in Versions |-> 0]
    /\ drops = [v \in Versions |-> 0]
    /\ nextVersion = 1
    /\ events = <<Initialize(0)>>
    /\ call = [t \in Threads |-> "none"]
    /\ pc = [t \in Threads |-> "idle"]
    /\ ptr = [t \in Threads |-> 0]
    /\ newv = [t \in Threads |-> 0]
    /\ old = [t \in Threads |-> 0]
    /\ handles = [t \in Threads |-> [v \in Versions |-> 0]]
    /\ writeBacks = 0
    /\ ub = FALSE

(* a thread can call into the slot while it holds an owner of it *)
CanCall(t) == pc[t] = "idle" /\ t \in owner /\ ~torn

(* the call returns: its locals go out of scope *)
Return(t) ==
    /\ call' = [call EXCEPT ![t] = "none"]
    /\ pc' = [pc EXCEPT ![t] = "idle"]
    /\ ptr' = [ptr EXCEPT ![t] = 0]
    /\ newv' = [newv EXCEPT ![t] = 0]
    /\ old' = [old EXCEPT ![t] = 0]

(* the version numbers in use, with those the updates in progress will take *)
PendingClones == Cardinality({t \in Threads : pc[t] \in {"upd_inc", "upd_clone"}})
CanCreate == nextVersion + PendingClones < MaxVersions

(* ------------------------------ read ----------------------------------- *)

(* mutant: read takes the address the slot was constructed with *)
ReadLoadStale(t) ==
    /\ CanCall(t)
    /\ NumHandles(t) < MaxHandles
    /\ ptr' = [ptr EXCEPT ![t] = 0]
    /\ call' = [call EXCEPT ![t] = "read"]
    /\ pc' = [pc EXCEPT ![t] = "read_inc"]
    /\ UNCHANGED <<slot, torn, owner, vstate, strong, value, drops, nextVersion,
                   events, newv, old, handles, writeBacks, ub>>

(* read, line 175: let ptr = self.ptr.load(Acquire) *)
ReadLoad(t) ==
    /\ CanCall(t)
    /\ NumHandles(t) < MaxHandles
    /\ ptr' = [ptr EXCEPT ![t] = Load]
    /\ call' = [call EXCEPT ![t] = "read"]
    /\ pc' = [pc EXCEPT ![t] = "read_inc"]
    /\ UNCHANGED <<slot, torn, owner, vstate, strong, value, drops, nextVersion,
                   events, newv, old, handles, writeBacks, ub>>

(* read, lines 182-184: increment_strong_count(ptr); Arc::from_raw(ptr) *)
ReadInc(t) ==
    /\ pc[t] = "read_inc"
    /\ IncrementStrongCount(ptr[t])
    /\ handles' = [handles EXCEPT ![t][ptr[t]] = @ + 1]
    /\ Return(t)
    /\ UNCHANGED <<slot, torn, owner, vstate, value, drops, nextVersion, events,
                   writeBacks>>

(* the caller drops a handle that read returned *)
DropHandle(t, v) ==
    /\ pc[t] = "idle"
    /\ handles[t][v] > 0
    /\ handles' = [handles EXCEPT ![t][v] = @ - 1]
    /\ DropArc(v)
    /\ UNCHANGED <<slot, torn, owner, value, nextVersion, call, pc, ptr, newv,
                   old, writeBacks>>

(* ------------------------------ read_ref -------------------------------- *)

(* mutant: read_ref raises the strong count, as read does, with nothing to *)
(* release it                                                              *)
ReadRefCounts(t) ==
    /\ CanCall(t)
    /\ ptr' = [ptr EXCEPT ![t] = slot]
    /\ IncrementStrongCount(slot)
    /\ call' = [call EXCEPT ![t] = "read_ref"]
    /\ pc' = [pc EXCEPT ![t] = "ref_held"]
    /\ UNCHANGED <<slot, torn, owner, vstate, value, drops, nextVersion,
                   events, newv, old, handles, writeBacks>>

(* read_ref, line 225: &**self.ptr.as_ptr(), a plain reference to the      *)
(* version whose address the slot holds; no strong count is touched.  The  *)
(* reference borrows the owner, which cannot be dropped while it is held.  *)
ReadRef(t) ==
    /\ CanCall(t)
    /\ ptr' = [ptr EXCEPT ![t] = slot]
    /\ call' = [call EXCEPT ![t] = "read_ref"]
    /\ pc' = [pc EXCEPT ![t] = "ref_held"]
    /\ UNCHANGED <<slot, torn, owner, vstate, strong, value, drops, nextVersion,
                   events, newv, old, handles, writeBacks, ub>>

(* the last use of the reference read_ref returned (lines 218, 222): it    *)
(* reads the version, deallocated or not, and the reference's lifetime ends *)
ReadRefLastUse(t) ==
    /\ pc[t] = "ref_held"
    /\ ub' = (ub \/ vstate[ptr[t]] # "alloc")
    /\ Return(t)
    /\ UNCHANGED <<slot, torn, owner, vstate, strong, value, drops, nextVersion,
                   events, handles, writeBacks>>

(* ------------------------------ write ---------------------------------- *)

(* write(Arc::new(Version::new(events, data))), line 273: the caller       *)
(* constructs a new version and write takes its address                    *)
WriteNew(t, data) ==
    /\ CanCall(t)
    /\ CanCreate
    /\ ArcNewVersion(nextVersion, data)
    /\ newv' = [newv EXCEPT ![t] = nextVersion]
    /\ call' = [call EXCEPT ![t] = "write"]
    /\ pc' = [pc EXCEPT ![t] = "write_swap"]
    /\ UNCHANGED <<slot, torn, owner, drops, ptr, old, handles, writeBacks, ub>>

(* mutant: write takes the address of the handle but the caller keeps the  *)
(* handle, with no increment for the second owner of the reference         *)
WriteHandleKept(t, v) ==
    /\ CanCall(t)
    /\ handles[t][v] > 0
    /\ writeBacks < MaxWriteBacks
    /\ writeBacks' = writeBacks + 1
    /\ newv' = [newv EXCEPT ![t] = v]
    /\ call' = [call EXCEPT ![t] = "write"]
    /\ pc' = [pc EXCEPT ![t] = "write_swap"]
    /\ UNCHANGED <<slot, torn, owner, vstate, strong, value, drops, nextVersion,
                   events, ptr, old, handles, ub>>

(* write(h), line 273, for a handle h that read returned to the caller *)
WriteHandle(t, v) ==
    /\ CanCall(t)
    /\ handles[t][v] > 0
    /\ writeBacks < MaxWriteBacks
    /\ writeBacks' = writeBacks + 1
    /\ handles' = [handles EXCEPT ![t][v] = @ - 1]
    /\ newv' = [newv EXCEPT ![t] = v]
    /\ call' = [call EXCEPT ![t] = "write"]
    /\ pc' = [pc EXCEPT ![t] = "write_swap"]
    /\ UNCHANGED <<slot, torn, owner, vstate, strong, value, drops, nextVersion,
                   events, ptr, old, ub>>

(* mutant: the swap returns the previous address but its store is lost *)
WriteSwapStoreLost(t) ==
    /\ pc[t] = "write_swap"
    /\ old' = [old EXCEPT ![t] = slot]
    /\ slot' = slot
    /\ pc' = [pc EXCEPT ![t] = "write_release"]
    /\ UNCHANGED <<torn, owner, vstate, strong, value, drops, nextVersion, events,
                   call, ptr, newv, handles, writeBacks, ub>>

(* write, line 274: let old_ptr = self.ptr.swap(new_ptr, Release) *)
WriteSwap(t) ==
    /\ pc[t] = "write_swap"
    /\ old' = [old EXCEPT ![t] = slot]
    /\ slot' = newv[t]
    /\ pc' = [pc EXCEPT ![t] = "write_release"]
    /\ UNCHANGED <<torn, owner, vstate, strong, value, drops, nextVersion, events,
                   call, ptr, newv, handles, writeBacks, ub>>

(* mutant: write forgets to release the reference it recovered *)
WriteReleaseForgets(t) ==
    /\ pc[t] = "write_release"
    /\ Return(t)
    /\ UNCHANGED <<slot, torn, owner, vstate, strong, value, drops, nextVersion,
                   events, handles, writeBacks, ub>>

(* mutant: write waits until no reader holds a handle to the version it    *)
(* replaced before it releases it                                          *)
WriteReleaseWaits(t) ==
    /\ pc[t] = "write_release"
    /\ \A u \in Threads : handles[u][old[t]] = 0
    /\ DropArc(old[t])
    /\ Return(t)
    /\ UNCHANGED <<slot, torn, owner, value, nextVersion, handles, writeBacks>>

(* write, line 278: drop(Arc::from_raw(old_ptr)) *)
WriteRelease(t) ==
    /\ pc[t] = "write_release"
    /\ DropArc(old[t])
    /\ Return(t)
    /\ UNCHANGED <<slot, torn, owner, value, nextVersion, handles, writeBacks>>

(* ------------------------------ update --------------------------------- *)

(* update, line 254, self.read(): the load *)
UpdateLoad(t) ==
    /\ CanCall(t)
    /\ CanCreate
    /\ ptr' = [ptr EXCEPT ![t] = Load]
    /\ call' = [call EXCEPT ![t] = "update"]
    /\ pc' = [pc EXCEPT ![t] = "upd_inc"]
    /\ UNCHANGED <<slot, torn, owner, vstate, strong, value, drops, nextVersion,
                   events, newv, old, handles, writeBacks, ub>>

(* update, line 254, self.read(): the increment *)
UpdateInc(t) ==
    /\ pc[t] = "upd_inc"
    /\ IncrementStrongCount(ptr[t])
    /\ pc' = [pc EXCEPT ![t] = "upd_clone"]
    /\ UNCHANGED <<slot, torn, owner, vstate, value, drops, nextVersion, events,
                   call, ptr, newv, old, handles, writeBacks>>

(* the payload Clone::clone reads: that of the version, or an arbitrary    *)
(* one when the version has been deallocated                               *)
ClonedPayloads(v) == IF vstate[v] = "alloc" THEN {value[v]} ELSE Payloads

(* update, line 254, the clone of T: Version::clone takes the next version *)
(* number; the clone is a private T, not yet in an Arc                     *)
UpdateClone(t) ==
    /\ pc[t] = "upd_clone"
    /\ \E data \in ClonedPayloads(ptr[t]) :
          value' = [value EXCEPT ![nextVersion] = data]
    /\ ub' = (ub \/ vstate[ptr[t]] # "alloc")
    /\ vstate' = [vstate EXCEPT ![nextVersion] = "private"]
    /\ nextVersion' = nextVersion + 1
    /\ Push(CloneEvent(ptr[t], nextVersion))
    /\ newv' = [newv EXCEPT ![t] = nextVersion]
    /\ pc' = [pc EXCEPT ![t] = "upd_droptmp"]
    /\ UNCHANGED <<slot, torn, owner, strong, drops, call, ptr, old, handles,
                   writeBacks>>

(* update, line 254, end of the statement: the temporary Arc of read is dropped *)
UpdateDropTmp(t) ==
    /\ pc[t] = "upd_droptmp"
    /\ DropArc(ptr[t])
    /\ pc' = [pc EXCEPT ![t] = "upd_run"]
    /\ UNCHANGED <<slot, torn, owner, value, nextVersion, call, ptr, newv, old,
                   handles, writeBacks>>

(* the updater closure thread t passes to update *)
Updater(t, data) == data + t

(* mutant: the clone is published without the updater applied *)
UpdateRunSkipsUpdater(t) ==
    /\ pc[t] = "upd_run"
    /\ vstate' = [vstate EXCEPT ![newv[t]] = "alloc"]
    /\ strong' = [strong EXCEPT ![newv[t]] = 1]
    /\ pc' = [pc EXCEPT ![t] = "write_swap"]
    /\ UNCHANGED <<slot, torn, owner, value, drops, nextVersion, events, call, ptr,
                   newv, old, handles, writeBacks, ub>>

(* mutant: the updater is applied to the value of the version current at   *)
(* that time, as if update had read the slot again                         *)
UpdateRunOnCurrent(t) ==
    /\ pc[t] = "upd_run"
    /\ value' = [value EXCEPT ![newv[t]] = Updater(t, value[slot])]
    /\ vstate' = [vstate EXCEPT ![newv[t]] = "alloc"]
    /\ strong' = [strong EXCEPT ![newv[t]] = 1]
    /\ pc' = [pc EXCEPT ![t] = "write_swap"]
    /\ UNCHANGED <<slot, torn, owner, drops, nextVersion, events, call, ptr, newv,
                   old, handles, writeBacks, ub>>

(* mutant: update stores the new version's address in the slot as soon as  *)
(* the updater returns, ahead of write's swap                              *)
UpdateRunStores(t) ==
    /\ pc[t] = "upd_run"
    /\ value' = [value EXCEPT ![newv[t]] = Updater(t, @)]
    /\ vstate' = [vstate EXCEPT ![newv[t]] = "alloc"]
    /\ strong' = [strong EXCEPT ![newv[t]] = 1]
    /\ slot' = newv[t]
    /\ pc' = [pc EXCEPT ![t] = "write_swap"]
    /\ UNCHANGED <<torn, owner, drops, nextVersion, events, call, ptr, newv,
                   old, handles, writeBacks, ub>>

(* mutant: the updater is run on the version update read, in place, and    *)
(* the unchanged clone is published                                        *)
UpdateRunInPlace(t) ==
    /\ pc[t] = "upd_run"
    /\ value' = [value EXCEPT ![ptr[t]] = Updater(t, @)]
    /\ vstate' = [vstate EXCEPT ![newv[t]] = "alloc"]
    /\ strong' = [strong EXCEPT ![newv[t]] = 1]
    /\ pc' = [pc EXCEPT ![t] = "write_swap"]
    /\ UNCHANGED <<slot, torn, owner, drops, nextVersion, events, call, ptr, newv,
                   old, handles, writeBacks, ub>>

(* update, lines 255-256: updater(&mut value) returns, Arc::new(value),    *)
(* and write takes its address (line 273)                                  *)
UpdateRun(t) ==
    /\ pc[t] = "upd_run"
    /\ value' = [value EXCEPT ![newv[t]] = Updater(t, @)]
    /\ vstate' = [vstate EXCEPT ![newv[t]] = "alloc"]
    /\ strong' = [strong EXCEPT ![newv[t]] = 1]
    /\ pc' = [pc EXCEPT ![t] = "write_swap"]
    /\ UNCHANGED <<slot, torn, owner, drops, nextVersion, events, call, ptr, newv,
                   old, handles, writeBacks, ub>>

(* mutant: the clone is stored in the slot before the updater's panic      *)
(* unwinds                                                                 *)
UpdatePanicPublishes(t) ==
    /\ pc[t] = "upd_run"
    /\ slot' = newv[t]
    /\ vstate' = [vstate EXCEPT ![newv[t]] = "alloc"]
    /\ strong' = [strong EXCEPT ![newv[t]] = 1]
    /\ Return(t)
    /\ UNCHANGED <<torn, owner, value, drops, nextVersion, events, handles,
                   writeBacks, ub>>

(* update, line 255: updater panics; unwinding drops the private clone,    *)
(* and Drop for Version logs nothing while the thread is panicking         *)
(* (lines 371-374)                                                         *)
UpdatePanic(t) ==
    /\ pc[t] = "upd_run"
    /\ vstate' = [vstate EXCEPT ![newv[t]] = "freed"]
    /\ drops' = [drops EXCEPT ![newv[t]] = @ + 1]
    /\ Return(t)
    /\ UNCHANGED <<slot, torn, owner, strong, value, nextVersion, events, handles,
                   writeBacks, ub>>

(* ------------------------------ owners --------------------------------- *)

(* Arc<Rcu<T>>::clone, handed to another thread *)
ShareOwner(t, u) ==
    /\ CanCall(t)
    /\ u \notin owner
    /\ owner' = owner \cup {u}
    /\ UNCHANGED <<slot, torn, vstate, strong, value, drops, nextVersion, events,
                   call, pc, ptr, newv, old, handles, writeBacks, ub>>

(* mutant: Rcu has no Drop, the slot's reference is never released *)
DropRcuForgets ==
    /\ torn' = TRUE
    /\ UNCHANGED <<vstate, strong, drops, events, ub>>

(* Drop for Rcu, lines 72-79: load the address, drop(Arc::from_raw(ptr)) *)
DropRcu ==
    /\ torn' = TRUE
    /\ DropArc(Load)

(* mutant: every owner's drop runs Drop for Rcu *)
DropOwnerTearsDown(t) ==
    /\ CanCall(t)
    /\ owner' = owner \ {t}
    /\ torn' = (owner = {t})
    /\ DropArc(Load)
    /\ UNCHANGED <<slot, value, nextVersion, call, pc, ptr, newv, old, handles,
                   writeBacks>>

(* drop of an owner; Drop for Rcu runs when it was the last one *)
DropOwner(t) ==
    /\ CanCall(t)
    /\ owner' = owner \ {t}
    /\ IF owner = {t}
       THEN DropRcu
       ELSE UNCHANGED <<torn, vstate, strong, drops, events, ub>>
    /\ UNCHANGED <<slot, value, nextVersion, call, pc, ptr, newv, old, handles,
                   writeBacks>>

(* ------------------------------ Next ----------------------------------- *)

Next ==
    \/ \E t \in Threads : ReadLoad(t)
    \/ \E t \in Threads : ReadInc(t)
    \/ \E t \in Threads, v \in Versions : DropHandle(t, v)
    \/ \E t \in Threads : ReadRef(t)
    \/ \E t \in Threads : ReadRefLastUse(t)
    \/ \E t \in Threads, data \in Payloads : WriteNew(t, data)
    \/ \E t \in Threads, v \in Versions : WriteHandle(t, v)
    \/ \E t \in Threads : WriteSwap(t)
    \/ \E t \in Threads : WriteRelease(t)
    \/ \E t \in Threads : UpdateLoad(t)
    \/ \E t \in Threads : UpdateInc(t)
    \/ \E t \in Threads : UpdateClone(t)
    \/ \E t \in Threads : UpdateDropTmp(t)
    \/ \E t \in Threads : UpdateRun(t)
    \/ \E t \in Threads : UpdatePanic(t)
    \/ \E t \in Threads, u \in Threads : ShareOwner(t, u)
    \/ \E t \in Threads : DropOwner(t)

Spec == Init /\ [][Next]_vars

(* the next step of the call thread t is in: read, write and update are    *)
(* straight-line code                                                      *)
StepOf(t) ==
    \/ ReadInc(t)
    \/ WriteSwap(t)
    \/ WriteRelease(t)
    \/ UpdateInc(t)
    \/ UpdateClone(t)
    \/ UpdateDropTmp(t)
    \/ UpdateRun(t)
    \/ UpdatePanic(t)

(* thread 1 is scheduled fairly; nothing is assumed of the other threads *)
FairSpec == Spec /\ WF_vars(StepOf(1))

(* one slot used through update only, by threads sharing its owners *)
NextUpdates ==
    \/ \E t \in Threads : UpdateLoad(t)
    \/ \E t \in Threads : UpdateInc(t)
    \/ \E t \in Threads : UpdateClone(t)
    \/ \E t \in Threads : UpdateDropTmp(t)
    \/ \E t \in Threads : UpdateRun(t)
    \/ \E t \in Threads : UpdatePanic(t)
    \/ \E t \in Threads : WriteSwap(t)
    \/ \E t \in Threads : WriteRelease(t)
    \/ \E t \in Threads, u \in Threads : ShareOwner(t, u)
    \/ \E t \in Threads : DropOwner(t)

SpecUpdates == Init /\ [][NextUpdates]_vars

(* ------------------------- vocabulary of the claims --------------------- *)

Allocated(v) == vstate[v] = "alloc"
Deallocated(v) == vstate[v] = "freed"
Created(v) == v < nextVersion
IsCurrent(v) == slot = v /\ ~torn
Quiescent == \A t \in Threads : pc[t] = "idle"

(* the handles read has returned for v and that have not been dropped or   *)
(* handed to write                                                         *)
HandleCount(v) == Sum([t \in Threads |-> handles[t][v]], Threads)

(* the strong references to v that calls in progress own: the temporary    *)
(* handle of update, the argument of write before its swap, and the        *)
(* reference write recovered from its swap                                 *)
InFlight(v) ==
    Cardinality({t \in Threads : pc[t] \in {"upd_clone", "upd_droptmp"} /\ ptr[t] = v})
    + Cardinality({t \in Threads : pc[t] = "write_swap" /\ newv[t] = v})
    + Cardinality({t \in Threads : pc[t] = "write_release" /\ old[t] = v})

Live(v) == IsCurrent(v) \/ HandleCount(v) > 0

(* ------------------------------ claims --------------------------------- *)

(* C1: a version that is live (the slot's current version, or referred to  *)
(* by an outstanding handle that read returned) is never deallocated.      *)
C1_LiveNeverDeallocated ==
    \A v \in Versions : Live(v) => ~Deallocated(v)

(* C2: every version is deallocated at most once.                          *)
C2_DeallocatedAtMostOnce ==
    \A v \in Versions : drops[v] <= 1

(* C3: at the step where read (called by the user or inside update)        *)
(* increments the strong count, the version it loaded is still allocated.  *)
C3_IncrementOnAllocated ==
    [][\A t \in Threads :
          (pc[t] \in {"read_inc", "upd_inc"} /\ pc'[t] # pc[t])
              => Allocated(ptr[t])]_vars

(* C4: once the slot is torn down and every handle has been dropped, every *)
(* version that was ever created has been deallocated.                     *)
C4_NoLeak ==
    (torn /\ Quiescent /\ \A v \in Versions : HandleCount(v) = 0)
        => \A v \in Versions : Created(v) => Deallocated(v)

(* new, write and a published clone of update, all deallocated once *)
C4_Witness ==
    /\ torn
    /\ \A v \in Versions : HandleCount(v) = 0
    /\ nextVersion = MaxVersions
    /\ \E v \in Versions :
          {CloneEvent(0, v), DropEvent(v)} \subseteq {events[i] : i \in 1..Len(events)}
    /\ \A v \in Versions : drops[v] = 1

(* C5: before teardown the address stored in the slot is that of an        *)
(* allocated version.                                                      *)
C5_SlotAllocated ==
    ~torn => Allocated(slot)

(* C6: when no call is in progress, the strong count of every allocated    *)
(* version is the number of outstanding handles to it, plus one if it is   *)
(* the slot's current version.                                             *)
C6_StrongCount ==
    Quiescent =>
        \A v \in Versions :
            Allocated(v) =>
                strong[v] = HandleCount(v) + (IF IsCurrent(v) THEN 1 ELSE 0)

C6_Witness ==
    /\ Quiescent
    /\ \E v, w \in Versions :
          /\ v # w /\ IsCurrent(v) /\ Allocated(v) /\ Allocated(w)
          /\ HandleCount(v) = 1 /\ HandleCount(w) = 1
          /\ strong[v] = 2 /\ strong[w] = 1

(* the steps of write, by thread t *)
SwapStep(t) == pc[t] = "write_swap" /\ pc'[t] = "write_release"
ReleaseStep(t) == pc[t] = "write_release" /\ pc'[t] = "idle"

(* a step in which a caller drops a handle to v *)
HandleDropStep(v) == HandleCount(v)' < HandleCount(v) /\ pc' = pc

(* C7: a handle obtained from read keeps its version alive across later    *)
(* writes and across teardown; a superseded version with an outstanding    *)
(* handle is deallocated exactly when its last handle is dropped.          *)
C7_HandleKeepsAlive ==
    [][\A v \in Versions :
          /\ (Allocated(v) /\ HandleCount(v) >= 1 /\ HandleCount(v)' >= 1)
                => Allocated(v)'
          /\ (Allocated(v) /\ ~IsCurrent(v) /\ HandleCount(v) >= 1 /\ InFlight(v) = 0)
                => (Deallocated(v)' <=> (HandleDropStep(v) /\ HandleCount(v)' = 0))]_vars

(* test_read: V0 init, V1 init, V1 dropped by teardown, V0 dropped with its handle *)
C7_Witness ==
    /\ events = <<Initialize(0), Initialize(1), DropEvent(1), DropEvent(0)>>
    /\ torn
    /\ ~ub

(* the release of write by t acts on a superseded, allocated version to    *)
(* which no handle and no other call in progress refers                    *)
ReleasesUnreferenced(t) ==
    /\ ReleaseStep(t)
    /\ Allocated(old[t])
    /\ old[t] # newv[t]
    /\ ~IsCurrent(old[t])
    /\ HandleCount(old[t]) = 0
    /\ InFlight(old[t]) = 1

(* C8: when write replaces a version to which no reader handle is          *)
(* outstanding, that version is deallocated inside the write call (by its  *)
(* release step, after the swap), hence before the new version is          *)
(* deallocated.                                                            *)
C8_ReleasedBeforeNewVersion ==
    [][\A t \in Threads :
          ReleasesUnreferenced(t) =>
              /\ vstate'[old[t]] = "freed"
              /\ events' = Append(events, DropEvent(old[t]))
              /\ drops[newv[t]] = 0]_vars

(* C8 as amended: the version is deallocated inside the write call; the    *)
(* new version is still allocated then if it is still the current one.     *)
C8_ReleasedInsideWrite ==
    [][\A t \in Threads :
          /\ SwapStep(t) => (vstate' = vstate /\ events' = events)
          /\ ReleasesUnreferenced(t) =>
              /\ vstate'[old[t]] = "freed"
              /\ events' = Append(events, DropEvent(old[t]))
              /\ (IsCurrent(newv[t]) /\ Allocated(newv[t]))
                    => (vstate'[newv[t]] = "alloc" /\ drops'[newv[t]] = 0)]_vars

(* test_simple: V0 init, V1 init, V0 dropped by the write, before teardown *)
C8_Witness ==
    /\ events = <<Initialize(0), Initialize(1), DropEvent(0)>>
    /\ Quiescent /\ IsCurrent(1) /\ Allocated(1)
    /\ ~ub

(* C9: dropping an owner that is not the last one deallocates no version   *)
(* and leaves the slot usable; a write through any owner deallocates the   *)
(* version it supersedes; the current version is deallocated only by the   *)
(* teardown that runs when the last owner is dropped.                      *)
C9_SharedOwners ==
    [][/\ (owner' # owner /\ owner' # {})
            => (vstate' = vstate /\ drops' = drops /\ strong' = strong
                /\ slot' = slot /\ ~torn')
       /\ \A t \in Threads :
            (ReleasesUnreferenced(t) /\ call[t] = "write")
                => (t \in owner /\ vstate'[old[t]] = "freed")
       /\ \A v \in Versions :
            (Allocated(v) /\ IsCurrent(v) /\ Deallocated(v)')
                => (torn' /\ owner' = {})]_vars

(* test_multiple: the first owner is gone, the other one is in its write   *)
(* of V2 and about to release V1                                           *)
C9_Witness ==
    /\ events = <<Initialize(0), Initialize(1), DropEvent(0), Initialize(2)>>
    /\ owner = {2}
    /\ call[2] = "write" /\ pc[2] = "write_release" /\ old[2] = 1 /\ newv[2] = 2
    /\ IsCurrent(2) /\ Allocated(1) /\ HandleCount(1) = 0
    /\ ~ub

(* C10: an update with no concurrent writer publishes one clone of the     *)
(* base version with the updater applied, and releases the base version,   *)
(* which is deallocated before update returns if nothing else refers to    *)
(* it; the clone stays allocated.                                          *)
C10_UpdatePublishesClone ==
    [][\A t \in Threads :
          call[t] = "update" =>
              /\ (SwapStep(t) /\ slot = ptr[t] /\ Allocated(ptr[t])) =>
                    /\ slot' = newv[t]
                    /\ old'[t] = ptr[t]
                    /\ Allocated(newv[t]) /\ strong[newv[t]] = 1
                    /\ value[newv[t]] = Updater(t, value[ptr[t]])
                    /\ Cardinality({i \in 1..Len(events) :
                           events[i][1] = "Clone" /\ events[i][3] = newv[t]}) = 1
                    /\ CloneEvent(ptr[t], newv[t]) \in {events[i] : i \in 1..Len(events)}
              /\ (ReleasesUnreferenced(t) /\ old[t] = ptr[t] /\ IsCurrent(newv[t])) =>
                    /\ vstate'[ptr[t]] = "freed"
                    /\ vstate'[newv[t]] = "alloc"]_vars

(* test_update: V0 init, clone V0 to V1, V0 dropped inside update *)
C10_Witness ==
    /\ events = <<Initialize(0), CloneEvent(0, 1), DropEvent(0)>>
    /\ Quiescent /\ IsCurrent(1) /\ Allocated(1) /\ value[1] = Updater(1, value[0])
    /\ ~ub

(* the steps of read, by thread t *)
ReadLoadStep(t) == pc[t] = "idle" /\ pc'[t] = "read_inc"
ReadReturnStep(t) == pc[t] = "read_inc" /\ pc'[t] = "idle"

(* C11: read returns a handle to the version that was the slot's current   *)
(* version at its load, an instant between its call and its return: the    *)
(* load takes the current version, the call keeps it until it returns, and *)
(* the handle returned is to it.  The current version is the argument of   *)
(* the latest swap, so a read that starts after write(V1) returned, with   *)
(* no swap in between, returns V1.                                         *)
C11_ReadReturnsCurrent ==
    [][/\ \A t \in Threads :
            /\ ReadLoadStep(t) => (IsCurrent(ptr'[t]) /\ slot' = slot)
            /\ (pc[t] = "read_inc" /\ pc'[t] = "read_inc") => ptr'[t] = ptr[t]
            /\ ReadReturnStep(t) =>
                  handles' = [handles EXCEPT ![t][ptr[t]] = @ + 1]
            /\ SwapStep(t) => slot' = newv[t]
       /\ (\A t \in Threads : ~SwapStep(t)) => slot' = slot]_vars

(* the doc example of write: V0, write(V1), then read returns V1 *)
C11_Witness ==
    /\ events = <<Initialize(0), Initialize(1), DropEvent(0)>>
    /\ Quiescent /\ IsCurrent(1)
    /\ handles[1][1] = 1 /\ HandleCount(0) = 0
    /\ strong[1] = 2
    /\ ~ub

(* C12: concurrent update calls never deallocate a version twice, and the  *)
(* version an update increments, clones from or releases is allocated at   *)
(* that step.                                                              *)
C12_UpdatesMemorySafe ==
    [][/\ \A t \in Threads :
            (call[t] = "update" /\ pc'[t] # pc[t]) =>
                /\ pc[t] \in {"upd_inc", "upd_clone", "upd_droptmp"} => Allocated(ptr[t])
                /\ pc[t] = "write_release" => Allocated(old[t])
       /\ \A v \in Versions : drops'[v] <= 1]_vars

(* the lifecycle log, as the tests read it *)
Logged(e) == \E i \in 1..Len(events) : events[i] = e
Position(e) ==
    IF Logged(e)
    THEN CHOOSE i \in 1..Len(events) :
             events[i] = e /\ \A j \in 1..(i - 1) : events[j] # e
    ELSE Len(events) + 1

(* version c is a clone that update took of version b before b was         *)
(* deallocated                                                             *)
ClonedWhileAllocated(b, c) ==
    Logged(CloneEvent(b, c)) /\ Position(CloneEvent(b, c)) < Position(DropEvent(b))

(* a version that was handed to write: it is allocated, or its             *)
(* deallocation is in the log (a clone dropped by a panic is not)          *)
Published(v) == Allocated(v) \/ Logged(DropEvent(v))

(* c1 and c2 are the clones of two updates that both read b, and no other  *)
(* version was in use since they did                                       *)
TwoUpdatesOf(b, c1, c2) ==
    /\ b < c1 /\ c1 = nextVersion - 2 /\ c2 = nextVersion - 1
    /\ ClonedWhileAllocated(b, c1) /\ ClonedWhileAllocated(b, c2)
    /\ Published(c1) /\ Published(c2)
    /\ \A v \in Versions :
          (v < c1 /\ v # b) =>
              /\ Deallocated(v)
              /\ Logged(DropEvent(v)) =>
                    Position(DropEvent(v)) < Position(CloneEvent(b, c1))

(* after both updates have returned: one clone is current, with one        *)
(* updater applied to the base value; the base and the other clone are     *)
(* gone                                                                    *)
LostUpdate ==
    \A b, c1, c2 \in Versions :
        (Quiescent /\ ~torn /\ TwoUpdatesOf(b, c1, c2)) =>
            /\ slot \in {c1, c2} /\ Allocated(slot)
            /\ \E t \in Threads : value[slot] = Updater(t, value[b])
            /\ \A v \in {b, c1, c2} \ {slot} : Deallocated(v)

(* C13: two concurrent updates that both read the same base version: each  *)
(* swap of update stores its own clone, the base value with its own        *)
(* updater applied, whatever the slot holds then, and update goes on to    *)
(* its release and returns (no retry); after both have returned, the       *)
(* current value is the base value with one updater applied.               *)
C13_LastSwapWins ==
    [][/\ \A t \in Threads :
            call[t] = "update" =>
                /\ (SwapStep(t) /\ ClonedWhileAllocated(ptr[t], newv[t])) =>
                      /\ slot' = newv[t]
                      /\ old'[t] = slot
                      /\ value[newv[t]] = Updater(t, value[ptr[t]])
                /\ pc[t] = "write_swap" => pc'[t] \in {"write_swap", "write_release"}
                /\ pc[t] = "write_release" => pc'[t] \in {"write_release", "idle"}
       /\ LostUpdate']_vars

(* both updates cloned V0; the one that cloned first swapped last, so its  *)
(* clone V1 is current and V2, the other's, is lost                        *)
C13_Witness ==
    /\ Quiescent /\ ~torn /\ TwoUpdatesOf(0, 1, 2)
    /\ IsCurrent(1) /\ Allocated(1) /\ Deallocated(2) /\ Deallocated(0)
    /\ Position(CloneEvent(0, 2)) < Position(DropEvent(0))
    /\ ~ub

(* the step in which the updater of t's update panics *)
PanicStep(t) == call[t] = "update" /\ pc[t] = "upd_run" /\ pc'[t] = "idle"

(* a version no reader can reach: it is not in the slot and no handle,     *)
(* reference or call in progress other than its creator's refers to it     *)
Unreachable(v) ==
    /\ slot # v
    /\ HandleCount(v) = 0
    /\ \A t \in Threads :
          /\ pc[t] \in {"read_inc", "ref_held", "upd_inc", "upd_clone", "upd_droptmp"}
                => ptr[t] # v
          /\ pc[t] = "write_release" => old[t] # v

(* C14: when the updater panics, update returns without reaching write:    *)
(* the step leaves the slot, every strong count, every handle and every    *)
(* published version as they are and discards the private clone, which was *)
(* never in the slot nor reachable by a reader; before it, update's own    *)
(* steps changed the strong counts only by the increment of its read and   *)
(* the matching release of the temporary handle.                           *)
C14_PanicLeavesSlot ==
    [][/\ \A t \in Threads :
            /\ PanicStep(t) =>
                  /\ slot' = slot /\ torn' = torn
                  /\ strong' = strong /\ handles' = handles /\ value' = value
                  /\ call'[t] = "none"
                  /\ vstate[newv[t]] = "private"
                  /\ vstate' = [vstate EXCEPT ![newv[t]] = "freed"]
                  /\ drops' = [drops EXCEPT ![newv[t]] = 1]
                  /\ Unreachable(newv[t])
            /\ (call[t] = "update" /\ pc[t] = "upd_inc" /\ pc'[t] # pc[t]
                  /\ Allocated(ptr[t]))
                  => strong' = [strong EXCEPT ![ptr[t]] = @ + 1]
            /\ (call[t] = "update" /\ pc[t] = "upd_clone" /\ pc'[t] # pc[t])
                  => (strong' = strong /\ slot' = slot)
            /\ (call[t] = "update" /\ pc[t] = "upd_droptmp" /\ pc'[t] # pc[t]
                  /\ Allocated(ptr[t]))
                  => (strong' = [strong EXCEPT ![ptr[t]] = @ - 1] /\ slot' = slot)
       /\ \A v \in Versions :
            (vstate[v] = "private" \/ (Deallocated(v) /\ ~Published(v)))
                => (Unreachable(v) /\ Unreachable(v)')]_vars

(* V0 init, clone V0 to V1, the updater panics: V0 is still current with   *)
(* its count of 1 and V1 is gone                                           *)
C14_Witness ==
    /\ events = <<Initialize(0), CloneEvent(0, 1)>>
    /\ Quiescent /\ IsCurrent(0) /\ Allocated(0) /\ strong[0] = 1
    /\ HandleCount(0) = 0
    /\ Deallocated(1) /\ drops[1] = 1
    /\ ~ub

(* the reference read_ref returned to t is outstanding *)
RefHeld(t) == call[t] = "read_ref" /\ pc[t] = "ref_held"

(* C15: read_ref returns a reference to the version in the slot and        *)
(* changes no strong count; while the reference is outstanding and its     *)
(* version is the allocated current one, every step that leaves the slot's *)
(* address in place and does not tear the slot down, reads and handle      *)
(* drops included, leaves the version allocated.                           *)
C15_ReadRefStaysAllocated ==
    [][\A t \in Threads :
          /\ (pc[t] = "idle" /\ pc'[t] = "ref_held") =>
                /\ ptr'[t] = slot
                /\ strong' = strong /\ vstate' = vstate /\ handles' = handles
                /\ slot' = slot
          /\ (RefHeld(t) /\ pc'[t] = "ref_held") => ptr'[t] = ptr[t]
          /\ (RefHeld(t) /\ Allocated(ptr[t]) /\ IsCurrent(ptr[t])
                /\ slot' = slot /\ ~torn')
                => (vstate'[ptr[t]] = "alloc" /\ strong'[ptr[t]] >= 1)]_vars

(* thread 1 holds a reference to the current version V1 while thread 2     *)
(* holds a handle to it that it read; V0 was replaced before               *)
C15_Witness ==
    /\ RefHeld(1) /\ ptr[1] = 1 /\ IsCurrent(1) /\ Allocated(1)
    /\ handles[2][1] = 1 /\ strong[1] = 2
    /\ Deallocated(0)
    /\ ~ub

(* the other case of C15: a write replaced the version during the          *)
(* reference's lifetime and deallocated it; the reference dangles          *)
ReplacedWhileRefHeld ==
    \E t \in Threads :
        RefHeld(t) /\ Deallocated(ptr[t]) /\ ~IsCurrent(ptr[t]) /\ ~ub

(* C16: the address stored in the slot changes only in the swap step of    *)
(* write, called directly or from update, which stores write's argument;   *)
(* the steps of read and read_ref, a handle drop, the read, clone and      *)
(* updater phase of update, write's release and the drop of an owner leave *)
(* it unchanged.                                                           *)
C16_SlotChangesOnlyInSwap ==
    [][/\ slot' # slot =>
            \E t \in Threads :
                SwapStep(t) /\ call[t] \in {"write", "update"} /\ slot' = newv[t]
       /\ \A t \in Threads :
            (pc'[t] # pc[t] /\ pc[t] # "write_swap") => slot' = slot
       /\ \A v \in Versions : HandleDropStep(v) => slot' = slot
       /\ owner' # owner => slot' = slot]_vars

(* the swap of an update has just replaced V0, to which a reader holds a   *)
(* handle, by the clone V1                                                 *)
C16_Witness ==
    \E t, u \in Threads :
        /\ call[t] = "update" /\ pc[t] = "write_release"
        /\ old[t] = 0 /\ newv[t] = 1 /\ slot = 1
        /\ handles[u][0] = 1
        /\ ~ub

(* the step in which the updater of t's update returns *)
UpdaterStep(t) == call[t] = "update" /\ pc[t] = "upd_run" /\ pc'[t] = "write_swap"

(* C17: the value of a version that is in an Arc (handed to write, current *)
(* or superseded, until it is deallocated) never changes; the updater      *)
(* changes the value of its private clone only, and a private clone is not *)
(* in the slot and not referred to by any handle, reference or read in     *)
(* progress.                                                               *)
C17_PublishedValueImmutable ==
    [][/\ \A v \in Versions :
            /\ Allocated(v) => value'[v] = value[v]
            /\ vstate[v] = "private" => Unreachable(v)
       /\ \A t \in Threads :
            UpdaterStep(t) =>
                /\ vstate[newv[t]] = "private"
                /\ value' = [value EXCEPT ![newv[t]] = Updater(t, value[newv[t]])]]_vars

(* an updater has returned: its clone V1 differs from V0, which is still   *)
(* current, unchanged, and held by a reader                                *)
C17_Witness ==
    \E t, u \in Threads :
        /\ call[t] = "update" /\ pc[t] = "write_swap" /\ newv[t] = 1
        /\ value[1] = Updater(t, value[0]) /\ value[1] # value[0]
        /\ value[0] = 0
        /\ IsCurrent(0) /\ Allocated(0) /\ handles[u][0] = 1
        /\ ~ub

(* the number of its own steps a thread has left in the call it is in *)
StepsLeft(t) ==
    CASE pc[t] = "idle" -> 0
      [] pc[t] \in {"read_inc", "ref_held", "write_release"} -> 1
      [] pc[t] = "write_swap" -> 2
      [] pc[t] = "upd_run" -> 3
      [] pc[t] = "upd_droptmp" -> 4
      [] pc[t] = "upd_clone" -> 5
      [] pc[t] = "upd_inc" -> 6

(* C18: read, write and update are non-blocking: when the calling thread   *)
(* is scheduled fairly, every call it has started returns, whatever the    *)
(* other threads do or fail to do; every step of a call brings its return  *)
(* closer (no loop, no retry).                                             *)
C18_OperationsReturn ==
    /\ (call[1] \in {"read", "write", "update"}) ~> (call[1] = "none")
    /\ [][\A t \in Threads :
             (pc[t] # "idle" /\ pc'[t] # pc[t]) => StepsLeft(t)' < StepsLeft(t)]_vars

(* thread 1 has completed an update (V0 cloned into V2, V0 released) while *)
(* thread 2 is stopped in a write of V1, before its swap                   *)
C18_Witness ==
    /\ call[2] = "write" /\ pc[2] = "write_swap" /\ newv[2] = 1
    /\ call[1] = "none" /\ pc[1] = "idle"
    /\ Logged(CloneEvent(0, 2)) /\ IsCurrent(2) /\ Deallocated(0)
    /\ ~ub

(* the addresses their swaps returned to the writes that have not yet      *)
(* released them are pairwise distinct                                     *)
SwapsReturnedDistinct ==
    \A t, u \in Threads :
        (t # u /\ pc[t] = "write_release" /\ pc[u] = "write_release")
            => old[t] # old[u]

(* no write (direct or from update) is between its call and its return *)
NoWriter == \A t \in Threads : pc[t] \notin {"write_swap", "write_release"}

(* with no write in progress, the slot's reference is counted for the      *)
(* current version and for no other: every strong count is the handles and *)
(* temporaries, plus one for the version in the slot                       *)
SlotReferenceAccounted ==
    (NoWriter /\ ~torn) =>
        \A v \in Versions :
            Allocated(v) =>
                strong[v] = HandleCount(v) + InFlight(v) + (IF slot = v THEN 1 ELSE 0)

(* a swap stores its argument and returns what the slot held; the release  *)
(* that follows gives up one reference to the version returned             *)
SwapThenRelease ==
    \A t \in Threads :
        /\ SwapStep(t) => (slot' = newv[t] /\ old'[t] = slot)
        /\ (ReleaseStep(t) /\ Allocated(old[t])) =>
              strong' = [strong EXCEPT ![old[t]] = @ - 1]

(* C19: concurrent writes: each swap returns a distinct previous address,  *)
(* so every superseded version has the slot's reference released by        *)
(* exactly one writer; after all writes have returned, the current version *)
(* is the argument of the last swap and no other version has the slot's    *)
(* reference.                                                              *)
C19_DistinctPreviousAddress ==
    [][/\ SwapThenRelease
       /\ SwapsReturnedDistinct'
       /\ SlotReferenceAccounted']_vars

(* C19 as amended: the previous addresses are distinct when every version  *)
(* handed to write is a new one (no handle that read returned is written   *)
(* back); then the version a write releases is allocated at the release.   *)
(* In every case a swap takes over the one reference the slot held and the *)
(* release gives it up once.                                               *)
C19_SlotReferenceReleasedOnce ==
    [][/\ SwapThenRelease
       /\ writeBacks' = 0 => SwapsReturnedDistinct'
       /\ \A t \in Threads :
            (ReleaseStep(t) /\ writeBacks = 0) => Allocated(old[t])
       /\ SlotReferenceAccounted']_vars

(* two concurrent writes of new versions: thread 1 swapped V1 in and got   *)
(* V0, thread 2 swapped V2 in and got V1; neither has released yet         *)
C19_Witness ==
    /\ call[1] = "write" /\ pc[1] = "write_release" /\ old[1] = 0 /\ newv[1] = 1
    /\ call[2] = "write" /\ pc[2] = "write_release" /\ old[2] = 1 /\ newv[2] = 2
    /\ slot = 2 /\ writeBacks = 0
    /\ ~ub

(* only V0 was ever created and a handle to it has been written back, and  *)
(* no call is in progress                                                  *)
WrittenBackOnly ==
    Quiescent /\ ~torn /\ writeBacks >= 1 /\ events = <<Initialize(0)>>

(* C20: write of a handle to the version that is already current: the swap *)
(* returns the same address and changes nothing else; the release, with    *)
(* the version still current, lowers its count by one and does not         *)
(* deallocate it; after write(read()) the count is what it was before the  *)
(* read: one for the slot plus the handles outstanding.                    *)
C20_WriteBackKeepsCurrent ==
    [][/\ \A t \in Threads :
            call[t] = "write" =>
                /\ (SwapStep(t) /\ slot = newv[t] /\ Allocated(newv[t])) =>
                      /\ old'[t] = newv[t]
                      /\ slot' = slot /\ strong' = strong /\ vstate' = vstate
                      /\ strong[newv[t]] >= 2
                /\ (ReleaseStep(t) /\ old[t] = newv[t] /\ Allocated(old[t])
                      /\ IsCurrent(old[t])) =>
                      /\ strong' = [strong EXCEPT ![old[t]] = @ - 1]
                      /\ vstate'[old[t]] = "alloc"
                      /\ slot' = slot
       /\ WrittenBackOnly' =>
            (slot' = 0 /\ vstate'[0] = "alloc" /\ strong'[0] = 1 + HandleCount(0)')]_vars

(* rcu.write(rcu.read()) on a new slot has returned: V0 is current with    *)
(* its count of 1                                                          *)
C20_Witness ==
    /\ WrittenBackOnly
    /\ IsCurrent(0) /\ Allocated(0) /\ strong[0] = 1 /\ HandleCount(0) = 0
    /\ drops[0] = 0
    /\ ~ub

====
